---- MODULE Spec2Model ----
(***************************************************************************)
(* rs2know: revision bookkeeping of the incremental update                 *)
(* (src/src/analysis.rs), the report update of src/src/main.rs and the     *)
(* helpers of src/src/utils.rs and src/src/config.rs.                      *)
(*                                                                         *)
(* Option<T> is modelled as a sequence of length at most one:              *)
(* None == <<>>, Some(x) == <<x>>.                                         *)
(***************************************************************************)
EXTENDS Integers, Sequences, FiniteSets, TLC

VARIABLES
    \* ---- check_version_continuity applied to drawn inputs
    cvVersions, cvHistory, cvResult, cvPc,
    \* ---- analysis.rs update_report
    store,                \* the project's .pj.yml as it is on disk
    history,              \* the repository's revision walk from HEAD
    pc,                   \* position of the run inside update_report
    config,               \* update_report's in-memory Config (line 157)
    analyzed_versions,    \* local Vec of line 161
    versions_to_analyze,  \* the revisions the loop of line 210 still has to visit
    version,              \* loop variable of line 210, as an Option
    result,               \* the Result of line 217: "none", "ok" or "err"
    args_output,          \* whether args.output is Some(path)
    analysed,             \* trees handed to handle_default_analysis in this run
    saves,                \* analyzed sets written by update_report's config.save in this run
    store0,               \* the store as the run found it
    repo_head,            \* what HEAD points to: a branch, or a commit when detached
    temp_branches,        \* the commits c that have a branch temp-analysis-<c>
    original_branch,      \* the Option of the name of line 213
    repo_head0,           \* HEAD as the run found it
    temp_branches0,       \* the temporary branches the run found
    \* ---- main.rs: the default analysis and update_report
    worktree,             \* path -> Option<text>: the .rs files of the project directory
    head_tree,            \* path -> Option<text>: the tree of the HEAD commit
    has_repo,             \* whether Repository::discover finds a repository
    report,               \* the JSON report file on disk
    m_args,               \* [skip_ai, api_key_empty]
    cmd,                  \* the command that is running: "none", "default" or "update"
    mpc,                  \* position of the run
    project_analysis,     \* the ProjectAnalysis in memory: [summary, file_analyses]
    modified_files,       \* HashSet of main.rs 810
    pending,              \* walk entries (default) or record indices (update) still to visit
    totals,               \* [total_files, total_loc] of main.rs 152-153
    ai_calls,             \* paths handed to the analysis collaborator in this run
    ai_gave_up,           \* paths for which the wrapper answered Ok(None) in this run
    summary_calls,        \* calls of the summary collaborator in this run
    report0,              \* the report file as the run found it
    after_default,        \* the run before this one was a default analysis that completed
    \* ---- needs_reanalysis applied to drawn inputs
    nrCurrent, nrStored, nrResult, nrPc,
    \* ---- the retry wrappers, one attempt per step
    rtFn,                 \* which wrapper runs: "retry", "ai" or "summary"
    rtOutcomes,           \* what the wrapped operation answers, call after call
    rtAttempt,            \* `attempt` of utils.rs 17, `retries` of the two other loops
    rtCalls,              \* how often the wrapped operation was invoked
    rtResult,             \* the Result the wrapper returned
    rtWaits,              \* the sleeps of the wrapper so far, in milliseconds
    rtPc,
    \* ---- the two analyze_code functions applied to a drawn text
    acText, acMain, acLib, acPc,
    \* ---- Config::save followed by Config::load on a drawn value
    rcConfig,             \* the Config that is saved
    rcFile,               \* the project's .pj.yml
    rcLoaded,             \* the Result of the load
    rcPc

gitVars == <<repo_head, temp_branches, original_branch, repo_head0, temp_branches0>>
cvVars == <<cvVersions, cvHistory, cvResult, cvPc>>
urVars == <<store, history, pc, config, analyzed_versions, versions_to_analyze,
            version, result, args_output, analysed, saves, store0, gitVars>>
mVars == <<worktree, head_tree, has_repo, report, m_args, cmd, mpc, project_analysis,
           modified_files, pending, totals, ai_calls, ai_gave_up, summary_calls, report0,
           after_default>>
nrVars == <<nrCurrent, nrStored, nrResult, nrPc>>
rtVars == <<rtFn, rtOutcomes, rtAttempt, rtCalls, rtResult, rtWaits, rtPc>>
acVars == <<acText, acMain, acLib, acPc>>
rcVars == <<rcConfig, rcFile, rcLoaded, rcPc>>
fnVars == <<nrVars, rtVars, acVars, rcVars>>
vars == <<cvVars, urVars, mVars, fnVars>>

(***************************************************************************)
(* Bounds of the model.                                                    *)
(***************************************************************************)
\* longest revision history
MaxHistory == 3
\* longest analyzed_versions list a stored snapshot starts with
MaxStored == 2
\* longest versions argument drawn for check_version_continuity
MaxVersions == 3

\* revision ids
Commits == {"h1", "h2", "h3", "h4"}

None == <<>>
Some(x) == <<x>>
Range(s) == {s[i] : i \in 1..Len(s)}
Contains(s, x) == x \in Range(s)

RECURSIVE SeqsUpTo(_, _)
SeqsUpTo(S, n) ==
    IF n = 0 THEN {<<>>}
    ELSE LET shorter == SeqsUpTo(S, n - 1)
         IN shorter \cup {Append(s, x) : s \in {t \in shorter : Len(t) = n - 1}, x \in S}

NoDup(s) == \A i, j \in 1..Len(s) : i # j => s[i] # s[j]
DistinctSeqs(S, n) == {s \in SeqsUpTo(S, n) : NoDup(s)}

(***************************************************************************)
(* check_version_continuity (analysis.rs 70-89)                            *)
(***************************************************************************)
\* the loop body with the guard of line 84 left out
cvc_visit_unguarded(in_set, found_first, continuous) ==
    IF in_set
    THEN IF ~found_first
         THEN [found_first |-> TRUE, continuous |-> continuous, ret |-> FALSE]
         ELSE IF ~continuous
              THEN [found_first |-> found_first, continuous |-> continuous, ret |-> TRUE]
              ELSE [found_first |-> found_first, continuous |-> continuous, ret |-> FALSE]
    ELSE [found_first |-> found_first, continuous |-> FALSE, ret |-> FALSE]

\* one iteration of the loop of lines 77-87; ret: the early `return false`
cvc_visit(in_set, found_first, continuous) ==
    IF in_set
    THEN IF ~found_first
         THEN [found_first |-> TRUE, continuous |-> continuous, ret |-> FALSE]
         ELSE IF ~continuous
              THEN [found_first |-> found_first, continuous |-> continuous, ret |-> TRUE]
              ELSE [found_first |-> found_first, continuous |-> continuous, ret |-> FALSE]
    ELSE IF found_first
         THEN [found_first |-> found_first, continuous |-> FALSE, ret |-> FALSE]
         ELSE [found_first |-> found_first, continuous |-> continuous, ret |-> FALSE]

RECURSIVE cvc_loop(_, _, _, _, _)
cvc_loop(version_set, hist, i, found_first, continuous) ==
    IF i > Len(hist) THEN TRUE
    ELSE LET st == cvc_visit(hist[i] \in version_set, found_first, continuous)
         IN IF st.ret THEN FALSE
            ELSE cvc_loop(version_set, hist, i + 1, st.found_first, st.continuous)

check_version_continuity(versions, hist) ==
    IF versions = <<>> THEN TRUE
    ELSE cvc_loop(Range(versions), hist, 1, FALSE, TRUE)

\* the versions argument and the history the function is applied to
CvInit ==
    /\ cvVersions \in SeqsUpTo(Commits, MaxVersions)
    /\ cvHistory \in SeqsUpTo(Commits, MaxHistory)
    /\ cvResult = FALSE
    /\ cvPc = "call"

CvIdle ==
    /\ cvVersions = <<>>
    /\ cvHistory = <<>>
    /\ cvResult = FALSE
    /\ cvPc = "off"

CvCall ==
    /\ cvPc = "call"
    /\ cvResult' = check_version_continuity(cvVersions, cvHistory)
    /\ cvPc' = "returned"
    /\ UNCHANGED <<cvVersions, cvHistory>>
    /\ UNCHANGED <<urVars, mVars, fnVars>>

(***************************************************************************)
(* The stored configuration (config.rs 10-21) and the snapshot it holds    *)
(* (ProjectAnalysis as analysis.rs and utils.rs 61-71 use it).             *)
(***************************************************************************)
\* files: which tree the file records were computed from
ProjectAnalysis(files, git_version, versions) ==
    [kind |-> "analysis", files |-> files,
     git_version |-> git_version, analyzed_versions |-> versions]

\* a JSON string (a report path), and any other value that is no ProjectAnalysis
PathValue == [kind |-> "path"]
OtherValue == [kind |-> "other"]

\* serde_json::from_value::<ProjectAnalysis>(v).is_ok()
from_value_ok(v) == v.kind = "analysis"

Config(generated, output) ==
    [kind |-> "config", generated |-> generated, output |-> output]

\* Config::default() (config.rs 22-33); Config::load of a missing file yields it
DefaultConfig == Config(None, None)

\* a file that fs::write left incomplete; serde_yaml cannot parse it
PartialFile == [kind |-> "partial"]

\* Config::load(...).is_ok() (config.rs 35-48)
load_ok(file) == file.kind = "config"

\* Config::save (config.rs 49-54): fs::write truncates and writes in place, so an
\* error leaves the old file or an incomplete one
save(cfg, file) ==
    {[ok |-> TRUE, file |-> cfg],
     [ok |-> FALSE, file |-> file],
     [ok |-> FALSE, file |-> PartialFile]}

\* utils.rs 61-71
create_project_analysis(files) == ProjectAnalysis(files, None, None)

\* utils.rs 87-104; input and output are Options
save_to_config(file, analysis, input, output) ==
    IF input # None THEN {[ok |-> TRUE, file |-> file]}
    ELSE IF ~load_ok(file) THEN {[ok |-> FALSE, file |-> file]}
    ELSE LET generated == [file EXCEPT !.generated = Some(analysis)]
             cfg == IF output # None
                    THEN [generated EXCEPT !.output = Some(PathValue)]
                    ELSE generated
         IN save(cfg, file)

\* crate::handle_default_analysis(args, project_path): analyses every file of the
\* tree that is checked out and stores the result; it fails before or while storing
handle_default_analysis(file, tree, output) ==
    {[ok |-> FALSE, file |-> file]}
      \cup save_to_config(file, create_project_analysis(tree), None, output)

(***************************************************************************)
(* analysis.rs                                                             *)
(***************************************************************************)
\* get_git_version (analysis.rs 17-25): the commit HEAD points to
get_git_version(hist) == IF hist = <<>> THEN None ELSE Some(hist[1])

\* analysis.rs 160-173: analyzed_versions, then git_version unless listed
stored_versions(cfg) ==
    IF cfg.output = None THEN <<>>
    ELSE LET v == cfg.output[1] IN
         IF ~from_value_ok(v) THEN <<>>
         ELSE LET listed == IF v.analyzed_versions # None
                            THEN v.analyzed_versions[1] ELSE <<>>
              IN IF v.git_version # None /\ ~Contains(listed, v.git_version[1])
                 THEN Append(listed, v.git_version[1])
                 ELSE listed

\* the filter of line 198 left out
unfiltered(hist, analyzed) == hist

\* analysis.rs 196-199
filter_versions(hist, analyzed) ==
    SelectSeq(hist, LAMBDA v : ~Contains(analyzed, v))

\* analysis.rs 183-190: the snapshot of the in-memory config with the list reset
reset_versions(cfg, current) ==
    IF cfg.output # None /\ from_value_ok(cfg.output[1])
    THEN Some([cfg EXCEPT !.output =
                  Some([cfg.output[1] EXCEPT !.analyzed_versions = Some(<<current>>)])])
    ELSE None

\* analysis.rs 226-236: the snapshot of the in-memory config with v pushed
push_version(cfg, v) ==
    IF cfg.output # None /\ from_value_ok(cfg.output[1])
    THEN LET a == cfg.output[1]
             listed == IF a.analyzed_versions = None THEN <<>> ELSE a.analyzed_versions[1]
         IN Some([cfg EXCEPT !.output =
                     Some([a EXCEPT !.analyzed_versions = Some(Append(listed, v))])])
    ELSE None

\* what HEAD can point to, and the names of branches: the project's branch, a
\* temporary analysis branch, a detached HEAD (whose shorthand is "HEAD")
MainBranch == <<"branch", "main">>
TempBranch(c) == <<"temp-analysis", c>>
Detached == <<"detached", "">>
HeadName == <<"HEAD", "">>

\* Reference::shorthand of repo.head() (analysis.rs 115-119)
shorthand(head) == IF head = Detached THEN HeadName ELSE head

\* whether refs/heads/<name> exists
branch_exists(name, temps) ==
    name = MainBranch \/ (name[1] = "temp-analysis" /\ name[2] \in temps)

\* switch_to_commit (analysis.rs 112-133): an error before the branch is created
\* (it exists already: repo.branch is called without force), an error of
\* checkout_tree or set_head behind it, or success
switch_to_commit(head, temps, commit_id) ==
    {[ok |-> FALSE, head |-> head, temps |-> temps, original |-> None]}
      \cup IF commit_id \in temps THEN {}
           ELSE {[ok |-> FALSE, head |-> head, temps |-> temps \cup {commit_id},
                  original |-> None],
                 [ok |-> TRUE, head |-> TempBranch(commit_id),
                  temps |-> temps \cup {commit_id}, original |-> Some(shorthand(head))]}

\* cleanup_analysis_branch (analysis.rs 135-153): an error of revparse_single (there
\* is no refs/heads/<original_branch>), checkout_tree or set_head, an error of
\* find_branch or delete behind them, or success
cleanup_analysis_branch(head, temps, commit_id, original) ==
    {[ok |-> FALSE, head |-> head, temps |-> temps]}
      \cup IF ~branch_exists(original, temps) THEN {}
           ELSE {[ok |-> FALSE, head |-> original, temps |-> temps],
                 [ok |-> TRUE, head |-> original, temps |-> temps \ {commit_id}]}

\* what update_report leaves alone
UrFrame == UNCHANGED <<cvVars, mVars, fnVars>>

UrLocals ==
    /\ config = DefaultConfig
    /\ analyzed_versions = <<>>
    /\ versions_to_analyze = <<>>
    /\ version = None
    /\ result = "none"
    /\ args_output = FALSE
    /\ analysed = <<>>
    /\ saves = 0
    /\ original_branch = None

\* every snapshot a store may start with
InitAnalyses ==
    {ProjectAnalysis("prior", gv, av) :
        gv \in {None} \cup {Some(c) : c \in Commits},
        av \in {None} \cup {Some(l) : l \in DistinctSeqs(Commits, MaxStored)}}

InitStores ==
    {Config(g, o) :
        g \in {None, Some(create_project_analysis("prior"))},
        o \in {None, Some(PathValue), Some(OtherValue)} \cup {Some(a) : a \in InitAnalyses}}

\* a project with one of the stores, HEAD on a branch or, with heads = {Detached},
\* on a commit
UrInitOn(stores, heads) ==
    /\ store \in stores
    /\ history \in DistinctSeqs(Commits, MaxHistory)
    /\ pc = "idle"
    /\ store0 = store
    /\ repo_head \in heads
    /\ (history = <<>> => repo_head = MainBranch)
    /\ temp_branches = {}
    /\ repo_head0 = repo_head
    /\ temp_branches0 = temp_branches
    /\ UrLocals

UrInit == UrInitOn(InitStores, {MainBranch})

\* the stores without results of an earlier analysis and without a legacy git_version
PlainStores ==
    {st \in InitStores :
        /\ st.generated = None
        /\ st.output # None => (from_value_ok(st.output[1]) /\ st.output[1].git_version = None)}

UrInitGit == UrInitOn(PlainStores, {MainBranch, Detached})

UrIdle ==
    /\ store = DefaultConfig
    /\ history = <<>>
    /\ pc = "off"
    /\ store0 = store
    /\ repo_head = MainBranch
    /\ temp_branches = {}
    /\ repo_head0 = repo_head
    /\ temp_branches0 = temp_branches
    /\ UrLocals

\* analysis.rs 157: get_effective_config fails on a file it cannot parse
UrLoadFails ==
    /\ UrFrame
    /\ UNCHANGED gitVars
    /\ pc = "idle"
    /\ ~load_ok(store)
    /\ pc' = "failed"
    /\ store0' = store
    /\ UNCHANGED <<store, history, config, analyzed_versions, versions_to_analyze,
                   version, result, args_output, analysed, saves>>

\* analysis.rs 158: get_git_history finds a .git directory but the repository
\* cannot be opened or walked (lines 55-66), and the error is passed on
UrHistoryFails ==
    /\ UrFrame
    /\ UNCHANGED gitVars
    /\ pc = "idle"
    /\ load_ok(store)
    /\ history # <<>>
    /\ pc' = "failed"
    /\ store0' = store
    /\ config' = store
    /\ UNCHANGED <<store, history, analyzed_versions, versions_to_analyze,
                   version, result, args_output, analysed, saves>>

\* analysis.rs 157-206: load, collect the analyzed versions, check continuity,
\* pick the revisions to analyze
UrBegin ==
    /\ UrFrame
    /\ UNCHANGED gitVars
    /\ pc = "idle"
    /\ load_ok(store)
    /\ \E o \in BOOLEAN : args_output' = o
    /\ store0' = store
    /\ config' = store
    /\ LET stored == stored_versions(store)
           todo == filter_versions(history, stored)
       IN IF ~check_version_continuity(stored, history)
          THEN /\ analyzed_versions' = <<>>
               /\ versions_to_analyze' = <<>>
               /\ pc' = "reset"
          ELSE /\ analyzed_versions' = stored
               /\ versions_to_analyze' = todo
               /\ pc' = IF todo = <<>> THEN "done" ELSE "switch"
    /\ UNCHANGED <<store, history, version, result, analysed, saves>>

\* analysis.rs 179: the full analysis of the working tree
UrResetAnalysis ==
    /\ UrFrame
    /\ UNCHANGED gitVars
    /\ pc = "reset"
    /\ \E r \in handle_default_analysis(store, "worktree",
                                        IF args_output THEN Some("path") ELSE None) :
          /\ store' = r.file
          /\ pc' = IF r.ok THEN "reset_persist" ELSE "failed"
          /\ analysed' = IF r.ok THEN Append(analysed, "worktree") ELSE analysed
    /\ UNCHANGED <<history, config, analyzed_versions, versions_to_analyze,
                   version, result, args_output, saves, store0>>

\* analysis.rs 182-192
UrResetPersist ==
    /\ UrFrame
    /\ UNCHANGED gitVars
    /\ pc = "reset_persist"
    /\ LET current == get_git_version(history)
           cfg == IF current = None THEN None ELSE reset_versions(config, current[1])
       IN IF cfg = None
          THEN /\ pc' = "done"
               /\ UNCHANGED <<store, config, saves>>
          ELSE \E r \in save(cfg[1], store) :
                  /\ config' = cfg[1]
                  /\ store' = r.file
                  /\ saves' = IF r.ok THEN saves + 1 ELSE saves
                  /\ pc' = IF r.ok THEN "done" ELSE "failed"
    /\ UNCHANGED <<history, analyzed_versions, versions_to_analyze,
                   version, result, args_output, analysed, store0>>

\* analysis.rs 210-214: switch_to_commit on the next revision
UrSwitch ==
    /\ UrFrame
    /\ pc = "switch"
    /\ version' = Some(Head(versions_to_analyze))
    /\ versions_to_analyze' = Tail(versions_to_analyze)
    /\ \E r \in switch_to_commit(repo_head, temp_branches, Head(versions_to_analyze)) :
          /\ repo_head' = r.head
          /\ temp_branches' = r.temps
          /\ original_branch' = r.original
          /\ pc' = IF r.ok THEN "analyze" ELSE "failed"
    /\ result' = "none"
    /\ UNCHANGED <<repo_head0, temp_branches0>>
    /\ UNCHANGED <<store, history, config, analyzed_versions,
                   args_output, analysed, saves, store0>>

\* analysis.rs 217: the analysis of the revision that is checked out
UrAnalyze ==
    /\ UrFrame
    /\ UNCHANGED gitVars
    /\ pc = "analyze"
    /\ \E r \in handle_default_analysis(store, version[1],
                                        IF args_output THEN Some("path") ELSE None) :
          /\ store' = r.file
          /\ result' = IF r.ok THEN "ok" ELSE "err"
          /\ analysed' = IF r.ok THEN Append(analysed, version[1]) ELSE analysed
    /\ pc' = "cleanup"
    /\ UNCHANGED <<history, config, analyzed_versions, versions_to_analyze,
                   version, args_output, saves, store0>>

\* analysis.rs 220: cleanup_analysis_branch
UrCleanup ==
    /\ UrFrame
    /\ pc = "cleanup"
    /\ \E r \in cleanup_analysis_branch(repo_head, temp_branches, version[1],
                                         original_branch[1]) :
          /\ repo_head' = r.head
          /\ temp_branches' = r.temps
          /\ pc' = IF r.ok THEN "record" ELSE "failed"
    /\ UNCHANGED <<original_branch, repo_head0, temp_branches0>>
    /\ UNCHANGED <<store, history, config, analyzed_versions, versions_to_analyze,
                   version, result, args_output, analysed, saves, store0>>

\* the Result of the analysis dropped instead of passed on
analysis_failed_ignored(res) == FALSE

\* analysis.rs 223: result?
analysis_failed(res) == res = "err"

\* analysis.rs 223-239: propagate the analysis error, or record the revision
UrRecord ==
    /\ UrFrame
    /\ UNCHANGED gitVars
    /\ pc = "record"
    /\ IF analysis_failed(result)
       THEN /\ pc' = "failed"
            /\ UNCHANGED <<store, config, saves>>
       ELSE LET cfg == push_version(config, version[1])
                next == IF versions_to_analyze = <<>> THEN "done" ELSE "switch"
            IN IF cfg = None
               THEN /\ pc' = next
                    /\ UNCHANGED <<store, config, saves>>
               ELSE \E r \in save(cfg[1], store) :
                       /\ config' = cfg[1]
                       /\ store' = r.file
                       /\ saves' = IF r.ok THEN saves + 1 ELSE saves
                       /\ pc' = IF r.ok THEN next ELSE "failed"
    /\ UNCHANGED <<history, analyzed_versions, versions_to_analyze,
                   version, result, args_output, analysed, store0>>

\* the command is run again, once HEAD and the branches have been put back as the
\* run found them
UrAgain ==
    /\ UrFrame
    /\ pc \in {"done", "failed"}
    /\ pc' = "idle"
    /\ original_branch' = None
    /\ repo_head' = repo_head0
    /\ temp_branches' = temp_branches0
    /\ UNCHANGED <<history, repo_head0, temp_branches0>>
    /\ store0' = store
    /\ config' = DefaultConfig
    /\ analyzed_versions' = <<>>
    /\ versions_to_analyze' = <<>>
    /\ version' = None
    /\ result' = "none"
    /\ args_output' = FALSE
    /\ analysed' = <<>>
    /\ saves' = 0
    /\ UNCHANGED store

\* between runs a commit is added on top of the history
GitCommit ==
    /\ UrFrame
    /\ UNCHANGED gitVars
    /\ pc = "idle"
    /\ Len(history) < MaxHistory
    /\ \E c \in Commits \ Range(history) : history' = <<c>> \o history
    /\ UNCHANGED <<store, pc, config, analyzed_versions, versions_to_analyze,
                   version, result, args_output, analysed, saves, store0>>

\* update_report, run after run
UrRun ==
    \/ UrLoadFails
    \/ UrHistoryFails
    \/ UrBegin
    \/ UrResetAnalysis
    \/ UrResetPersist
    \/ UrSwitch
    \/ UrAnalyze
    \/ UrCleanup
    \/ UrRecord
    \/ UrAgain

Next ==
    \/ UrRun
    \/ GitCommit

(***************************************************************************)
(* The retry wrappers: utils::retry (utils.rs 12-45),                      *)
(* do_ai_analysis_with_retry (openai.rs 107-152, main.rs 526-551) and      *)
(* generate_project_summary_with_retry (openai.rs 303-342, main.rs 678-702)*)
(*                                                                         *)
(* The wrapped operation answers "ok", "err" or, under utils::retry, "join *)
(* error". The value of a successful call is the number of the call, so    *)
(* that the results of different attempts differ. A Result is a record     *)
(* [kind, value] with value an Option.                                     *)
(***************************************************************************)
MAX_RETRIES == 5
RETRY_DELAY_MS == 1000

\* longest sequence of answers drawn for the wrapped operation
MaxAnswers == 6

Ok(v) == [kind |-> "Ok", value |-> v]
Err == [kind |-> "Err", value |-> None]
NoResult == [kind |-> "none", value |-> None]

\* utils.rs 18-42: the body of `for attempt in 1..=MAX_RETRIES` once the
\* operation, called for the call-th time, has answered
retry_step(attempt, answer, call) ==
    IF answer = "ok"
    THEN [done |-> TRUE, attempt |-> attempt, result |-> Ok(Some(call))]
    ELSE IF attempt < MAX_RETRIES
         THEN [done |-> FALSE, attempt |-> attempt + 1, result |-> NoResult]
         ELSE [done |-> TRUE, attempt |-> attempt, result |-> Err]

\* the wrapper with the return of line 536 taken on the last attempt only
with_retry_step_late(retries, answer, call) ==
    IF answer = "ok" /\ ~(retries < MAX_RETRIES - 1)
    THEN [done |-> TRUE, retries |-> retries, result |-> Ok(Some(Some(call)))]
    ELSE IF retries < MAX_RETRIES - 1
         THEN [done |-> FALSE, retries |-> retries + 1, result |-> NoResult]
         ELSE [done |-> TRUE, retries |-> retries, result |-> Ok(Some(None))]

\* the wrapper giving up with an error, as utils::retry does
with_retry_step_err(retries, answer, call) ==
    IF answer = "ok"
    THEN [done |-> TRUE, retries |-> retries, result |-> Ok(Some(Some(call)))]
    ELSE IF retries < MAX_RETRIES - 1
         THEN [done |-> FALSE, retries |-> retries + 1, result |-> NoResult]
         ELSE [done |-> TRUE, retries |-> retries, result |-> Err]

\* main.rs 535-548 (and 687-699, openai.rs 121-148, 315-338): the body of
\* `while retries < MAX_RETRIES` once the operation has answered; the wrapper's
\* value is itself an Option
with_retry_step(retries, answer, call) ==
    IF answer = "ok"
    THEN [done |-> TRUE, retries |-> retries, result |-> Ok(Some(Some(call)))]
    ELSE IF retries < MAX_RETRIES - 1
         THEN [done |-> FALSE, retries |-> retries + 1, result |-> NoResult]
         ELSE [done |-> TRUE, retries |-> retries, result |-> Ok(Some(None))]

\* utils.rs 24, 35: the sleep behind a failed attempt that is not the last
retry_delay(attempt) == RETRY_DELAY_MS * attempt

\* the same delay behind every failed attempt
with_retry_delay_flat(retries) == RETRY_DELAY_MS

\* main.rs 539, 690, openai.rs 126, 320
with_retry_delay(retries) == RETRY_DELAY_MS * (retries + 1)

\* the wrapper run to its end against the answers of the operation
RECURSIVE with_retry_loop(_, _, _)
with_retry_loop(retries, answers, call) ==
    IF ~(retries < MAX_RETRIES) THEN Ok(Some(None))
    ELSE LET st == with_retry_step(retries, answers[call], call)
         IN IF st.done THEN st.result
            ELSE with_retry_loop(st.retries, answers, call + 1)

with_retry(answers) == with_retry_loop(0, answers, 1)

\* every Result a wrapper can return
with_retry_results == {with_retry(a) : a \in [1..MAX_RETRIES -> {"ok", "err"}]}

Answers(fn) == IF fn = "retry" THEN {"ok", "err", "join error"} ELSE {"ok", "err"}

RtInit ==
    /\ rtFn \in {"retry", "ai", "summary"}
    /\ rtOutcomes \in [1..MaxAnswers -> Answers(rtFn)]
    /\ rtAttempt = IF rtFn = "retry" THEN 1 ELSE 0
    /\ rtCalls = 0
    /\ rtResult = NoResult
    /\ rtWaits = <<>>
    /\ rtPc = "loop"

RtIdle ==
    /\ rtFn = "none"
    /\ rtOutcomes = <<>>
    /\ rtAttempt = 0
    /\ rtCalls = 0
    /\ rtResult = NoResult
    /\ rtWaits = <<>>
    /\ rtPc = "off"

RtFrame == UNCHANGED <<cvVars, urVars, mVars, nrVars, acVars, rcVars>>

\* the answer to the next call of the wrapped operation
NextAnswer == IF rtCalls + 1 <= Len(rtOutcomes) THEN rtOutcomes[rtCalls + 1] ELSE "err"

\* utils.rs 17-44: one pass of the for loop, or the return behind it
RetryStep ==
    /\ RtFrame
    /\ rtFn = "retry"
    /\ rtPc = "loop"
    /\ IF rtAttempt > MAX_RETRIES
       THEN /\ rtResult' = Err
            /\ rtPc' = "returned"
            /\ UNCHANGED <<rtAttempt, rtCalls, rtWaits>>
       ELSE LET st == retry_step(rtAttempt, NextAnswer, rtCalls + 1)
            IN /\ rtCalls' = rtCalls + 1
               /\ rtAttempt' = st.attempt
               /\ rtResult' = st.result
               /\ rtWaits' = IF st.done THEN rtWaits
                              ELSE Append(rtWaits, retry_delay(rtAttempt))
               /\ rtPc' = IF st.done THEN "returned" ELSE "loop"
    /\ UNCHANGED <<rtFn, rtOutcomes>>

\* main.rs 533-550 / openai.rs 119-151: one pass of the while loop, or the return
\* behind it
AiRetryStep ==
    /\ RtFrame
    /\ rtFn = "ai"
    /\ rtPc = "loop"
    /\ IF ~(rtAttempt < MAX_RETRIES)
       THEN /\ rtResult' = Ok(Some(None))
            /\ rtPc' = "returned"
            /\ UNCHANGED <<rtAttempt, rtCalls, rtWaits>>
       ELSE LET st == with_retry_step(rtAttempt, NextAnswer, rtCalls + 1)
            IN /\ rtCalls' = rtCalls + 1
               /\ rtAttempt' = st.retries
               /\ rtResult' = st.result
               /\ rtWaits' = IF st.done THEN rtWaits
                              ELSE Append(rtWaits, with_retry_delay(rtAttempt))
               /\ rtPc' = IF st.done THEN "returned" ELSE "loop"
    /\ UNCHANGED <<rtFn, rtOutcomes>>

\* main.rs 684-701 / openai.rs 313-341
SummaryRetryStep ==
    /\ RtFrame
    /\ rtFn = "summary"
    /\ rtPc = "loop"
    /\ IF ~(rtAttempt < MAX_RETRIES)
       THEN /\ rtResult' = Ok(Some(None))
            /\ rtPc' = "returned"
            /\ UNCHANGED <<rtAttempt, rtCalls, rtWaits>>
       ELSE LET st == with_retry_step(rtAttempt, NextAnswer, rtCalls + 1)
            IN /\ rtCalls' = rtCalls + 1
               /\ rtAttempt' = st.retries
               /\ rtResult' = st.result
               /\ rtWaits' = IF st.done THEN rtWaits
                              ELSE Append(rtWaits, with_retry_delay(rtAttempt))
               /\ rtPc' = IF st.done THEN "returned" ELSE "loop"
    /\ UNCHANGED <<rtFn, rtOutcomes>>

RtNext ==
    \/ RetryStep
    \/ AiRetryStep
    \/ SummaryRetryStep

(***************************************************************************)
(* main.rs: texts and analyze_code (481-523)                               *)
(*                                                                         *)
(* A text is the sequence of its lines (content.lines()), a line the       *)
(* sequence of its characters.                                             *)
(***************************************************************************)
IsSpace(c) == c = " "

RECURSIVE trim_start(_)
trim_start(l) ==
    IF l # <<>> /\ IsSpace(Head(l)) THEN trim_start(Tail(l)) ELSE l

RECURSIVE trim_end(_)
trim_end(l) ==
    IF l # <<>> /\ IsSpace(l[Len(l)]) THEN trim_end(SubSeq(l, 1, Len(l) - 1)) ELSE l

\* str::trim
trim(l) == trim_end(trim_start(l))

\* str::starts_with
starts_with(l, prefix) ==
    Len(l) >= Len(prefix) /\ SubSeq(l, 1, Len(prefix)) = prefix

\* str::contains
contains(l, pat) ==
    \E i \in 1..(Len(l) - Len(pat) + 1) : SubSeq(l, i, i + Len(pat) - 1) = pat

CodeStats(loc, blank, comment, code) ==
    [loc |-> loc, blank_lines |-> blank, comment_lines |-> comment, code_lines |-> code]

\* the line of a block comment that is open passed over without being counted
analyze_line_uncounted(st, line) ==
    LET trimmed == trim(line)
        s == [st.stats EXCEPT !.loc = @ + 1]
    IN IF trimmed = <<>>
       THEN [stats |-> [s EXCEPT !.blank_lines = @ + 1],
             in_block_comment |-> st.in_block_comment]
       ELSE IF st.in_block_comment
       THEN [stats |-> s, in_block_comment |-> ~contains(trimmed, <<"*", "/">>)]
       ELSE IF starts_with(trimmed, <<"/", "*">>)
       THEN [stats |-> [s EXCEPT !.comment_lines = @ + 1],
             in_block_comment |-> ~contains(trimmed, <<"*", "/">>)]
       ELSE IF starts_with(trimmed, <<"/", "/">>)
       THEN [stats |-> [s EXCEPT !.comment_lines = @ + 1], in_block_comment |-> FALSE]
       ELSE [stats |-> [s EXCEPT !.code_lines = @ + 1], in_block_comment |-> FALSE]

\* the body of the loop of main.rs 491-520 for one line; st: [stats, in_block_comment]
analyze_line(st, line) ==
    LET trimmed == trim(line)
        s == [st.stats EXCEPT !.loc = @ + 1]
    IN IF trimmed = <<>>
       THEN [stats |-> [s EXCEPT !.blank_lines = @ + 1],
             in_block_comment |-> st.in_block_comment]
       ELSE IF st.in_block_comment
       THEN [stats |-> [s EXCEPT !.comment_lines = @ + 1],
             in_block_comment |-> ~contains(trimmed, <<"*", "/">>)]
       ELSE IF starts_with(trimmed, <<"/", "*">>)
       THEN [stats |-> [s EXCEPT !.comment_lines = @ + 1],
             in_block_comment |-> ~contains(trimmed, <<"*", "/">>)]
       ELSE IF starts_with(trimmed, <<"/", "/">>)
       THEN [stats |-> [s EXCEPT !.comment_lines = @ + 1], in_block_comment |-> FALSE]
       ELSE [stats |-> [s EXCEPT !.code_lines = @ + 1], in_block_comment |-> FALSE]

RECURSIVE analyze_lines(_, _)
analyze_lines(st, lines) ==
    IF lines = <<>> THEN st
    ELSE analyze_lines(analyze_line(st, Head(lines)), Tail(lines))

\* main.rs 481-523
analyze_code(content) ==
    analyze_lines([stats |-> CodeStats(0, 0, 0, 0), in_block_comment |-> FALSE],
                  content).stats

(***************************************************************************)
(* main.rs: the project, the report file and the collaborator              *)
(***************************************************************************)
\* the .rs paths of the project, in the order WalkDir yields them
WalkOrder == <<"a.rs", "b.rs">>
Paths == Range(WalkOrder)

\* the file contents the model draws from; the second is the first with a block
\* comment, a blank line and leading whitespace added
TextCode == << <<"x">>, <<"x", "x">> >>
TextCommented ==
    << <<"/", "*">>, <<"x">>, <<"*", "/">>, <<" ", "x">>, <<>>, <<"x", "x">> >>
Texts == {TextCode, TextCommented}

\* the content of a .rs file that is not valid UTF-8
TextBinary == << <<"\\xFF">> >>

\* main.rs 174: std::fs::read_to_string succeeds on valid UTF-8 only
read_to_string(text) == IF text = TextBinary THEN Err ELSE Ok(text)

\* what the analysis collaborator can return for a file, and the summary one for a project
Payloads == {"P1", "P2"}
Summaries == {"S2"}

FileAnalysis(file_path, stats, ai_analysis) ==
    [file_path |-> file_path, loc |-> stats.loc, blank_lines |-> stats.blank_lines,
     comment_lines |-> stats.comment_lines, code_lines |-> stats.code_lines,
     ai_analysis |-> ai_analysis]

\* main.rs 245-253: the summary made of the locally counted totals
LocalSummary(total_files, total_loc) ==
    [kind |-> "local", total_files |-> total_files, total_loc |-> total_loc]

\* a summary the collaborator returned
AiSummary(s) == [kind |-> "ai", id |-> s]

MissingReport == [kind |-> "missing"]
CorruptReport == [kind |-> "corrupt"]
ReportFile(pa) ==
    [kind |-> "report", summary |-> pa.summary, file_analyses |-> pa.file_analyses]

NoAnalysis == [summary |-> LocalSummary(0, 0), file_analyses |-> <<>>]

\* the test of skip_ai left out
ai_enabled_ignoring_skip(a) == ~a.api_key_empty

\* main.rs 191 / 839 / 855: !args.skip_ai && !args.api_key.is_empty()
ai_enabled(a) == ~a.skip_ai /\ ~a.api_key_empty

\* do_ai_analysis_with_retry (main.rs 526-551): the Options its Ok results hold,
\* Ok(Some(analysis)) or Ok(None)
do_ai_analysis_with_retry ==
    {IF r.value[1] = None THEN None ELSE Some(p) :
        r \in {x \in with_retry_results : x.kind = "Ok"}, p \in Payloads}

\* generate_project_summary_with_retry (main.rs 678-702)
generate_project_summary_with_retry ==
    {IF r.value[1] = None THEN None ELSE Some(AiSummary(sm)) :
        r \in {x \in with_retry_results : x.kind = "Ok"}, sm \in Summaries}

\* std::fs::write of the report (main.rs 289, 864)
write_report(pa, file) ==
    {[ok |-> TRUE, file |-> ReportFile(pa)],
     [ok |-> FALSE, file |-> file],
     [ok |-> FALSE, file |-> CorruptReport]}

\* every file of the working directory taken as modified
diff_every_file(tree, work, staged) ==
    {p \in Paths : work[p] # None}

\* main.rs 804-818: the .rs paths of the deltas between the HEAD tree and the
\* working directory; a file the tree lacks is a delta only when it is tracked
diff_tree_to_workdir(tree, work, staged) ==
    {p \in Paths : tree[p] # None /\ work[p] # tree[p]}
      \cup {p \in staged : tree[p] = None /\ work[p] # None}

MLocals ==
    /\ cmd = "none"
    /\ project_analysis = NoAnalysis
    /\ modified_files = {}
    /\ pending = <<>>
    /\ totals = [total_files |-> 0, total_loc |-> 0]
    /\ ai_calls = {}
    /\ ai_gave_up = {}
    /\ summary_calls = 0

\* the records a report may start with: per path none, or one with the statistics
\* of some text and a payload or none
InitRecords ==
    LET choice == [Paths -> {None} \cup
                     {Some(FileAnalysis("", analyze_code(t), a)) :
                        t \in Texts, a \in {None, Some("P1")}}]
    IN {[i \in 1..Len(SelectSeq(WalkOrder, LAMBDA p : c[p] # None)) |->
           [c[SelectSeq(WalkOrder, LAMBDA p : c[p] # None)[i]][1]
               EXCEPT !.file_path = SelectSeq(WalkOrder, LAMBDA p : c[p] # None)[i]]] :
        c \in choice}

InitReports ==
    {MissingReport, CorruptReport}
      \cup {ReportFile([summary |-> s, file_analyses |-> r]) :
              r \in InitRecords, s \in {AiSummary("S1")}}

\* a project whose files hold the given contents, with one of the given report files
MInitOn(contents, reports) ==
    /\ worktree \in [Paths -> {None} \cup {Some(t) : t \in contents}]
    /\ head_tree \in [Paths -> {None} \cup {Some(t) : t \in Texts}]
    /\ has_repo \in BOOLEAN
    /\ (~has_repo => head_tree = [p \in Paths |-> None])
    /\ report \in reports
    /\ m_args \in [skip_ai : BOOLEAN, api_key_empty : BOOLEAN]
    /\ mpc = "idle"
    /\ report0 = report
    /\ after_default = FALSE
    /\ MLocals

MInit == MInitOn(Texts, InitReports)

\* a project without a report, some of whose .rs files may be unreadable
MInitWalk == MInitOn(Texts \cup {TextBinary}, {MissingReport})

MIdle ==
    /\ worktree = [p \in Paths |-> None]
    /\ head_tree = [p \in Paths |-> None]
    /\ has_repo = FALSE
    /\ report = MissingReport
    /\ m_args = [skip_ai |-> TRUE, api_key_empty |-> TRUE]
    /\ mpc = "off"
    /\ report0 = report
    /\ after_default = FALSE
    /\ MLocals

MFrame == UNCHANGED <<cvVars, urVars, fnVars>>

(***************************************************************************)
(* main.rs 140-290: the default analysis, written as JSON                  *)
(***************************************************************************)
\* main.rs 151-168: the walk starts
MdBegin ==
    /\ MFrame
    /\ mpc = "idle"
    /\ cmd' = "default"
    /\ mpc' = "walk"
    /\ pending' = SelectSeq(WalkOrder, LAMBDA p : worktree[p] # None)
    /\ project_analysis' = NoAnalysis
    /\ totals' = [total_files |-> 0, total_loc |-> 0]
    /\ report0' = report
    /\ UNCHANGED <<worktree, head_tree, has_repo, report, m_args, modified_files,
                   ai_calls, ai_gave_up, summary_calls, after_default>>

\* main.rs 169-221: one .rs file of the walk
MdFile ==
    /\ MFrame
    /\ mpc = "walk"
    /\ pending # <<>>
    /\ LET path == Head(pending)
           code == read_to_string(worktree[path][1])
           stats == analyze_code(code.value)
       IN IF code.kind = "Err"
          THEN \* 171-180: the file is counted, then skipped
               /\ totals' = [totals EXCEPT !.total_files = @ + 1]
               /\ UNCHANGED <<project_analysis, ai_calls, ai_gave_up>>
          ELSE /\ totals' = [total_files |-> totals.total_files + 1,
                             total_loc |-> totals.total_loc + stats.loc]
               /\ IF ai_enabled(m_args)
                  THEN \E ai \in do_ai_analysis_with_retry :
                          /\ project_analysis' =
                                [project_analysis EXCEPT !.file_analyses =
                                    Append(@, FileAnalysis(path, stats, ai))]
                          /\ ai_calls' = ai_calls \cup {path}
                          /\ ai_gave_up' = IF ai = None THEN ai_gave_up \cup {path}
                                                        ELSE ai_gave_up \ {path}
                  ELSE /\ project_analysis' =
                             [project_analysis EXCEPT !.file_analyses =
                                 Append(@, FileAnalysis(path, stats, None))]
                       /\ UNCHANGED <<ai_calls, ai_gave_up>>
    /\ pending' = Tail(pending)
    /\ UNCHANGED <<worktree, head_tree, has_repo, report, m_args, cmd, mpc,
                   modified_files, summary_calls, report0, after_default>>

\* main.rs 236-290: the summary and the JSON report
MdWrite ==
    /\ MFrame
    /\ mpc = "walk"
    /\ pending = <<>>
    /\ \E s \in IF ai_enabled(m_args) THEN generate_project_summary_with_retry ELSE {None} :
          LET pa == [project_analysis EXCEPT !.summary =
                        IF s # None THEN s[1]
                        ELSE LocalSummary(totals.total_files, totals.total_loc)]
          IN /\ project_analysis' = pa
             /\ \E w \in write_report(pa, report) :
                   /\ report' = w.file
                   /\ mpc' = IF w.ok THEN "done" ELSE "failed"
    /\ summary_calls' = IF ai_enabled(m_args) THEN summary_calls + 1 ELSE summary_calls
    /\ UNCHANGED <<worktree, head_tree, has_repo, m_args, cmd, modified_files, pending,
                   totals, ai_calls, ai_gave_up, report0, after_default>>

(***************************************************************************)
(* main.rs 798-868: update_report                                          *)
(***************************************************************************)
\* main.rs 800-805: the report cannot be read or parsed, or there is no repository
MuOpenFails ==
    /\ MFrame
    /\ mpc = "idle"
    /\ report.kind # "report" \/ ~has_repo
    /\ cmd' = "update"
    /\ mpc' = "failed"
    /\ report0' = report
    /\ UNCHANGED <<worktree, head_tree, has_repo, report, m_args, project_analysis,
                   modified_files, pending, totals, ai_calls, ai_gave_up, summary_calls, after_default>>

\* main.rs 800-825: read the report, collect the modified files
MuBegin ==
    /\ MFrame
    /\ mpc = "idle"
    /\ report.kind = "report"
    /\ has_repo
    /\ cmd' = "update"
    /\ report0' = report
    /\ project_analysis' = [summary |-> report.summary, file_analyses |-> report.file_analyses]
    /\ \E staged \in SUBSET Paths :
          LET modified == diff_tree_to_workdir(head_tree, worktree, staged)
          IN /\ modified_files' = modified
             /\ IF modified = {}
                THEN mpc' = "done" /\ pending' = <<>>
                ELSE /\ mpc' = "loop"
                     /\ pending' = [i \in 1..Len(report.file_analyses) |-> i]
    /\ UNCHANGED <<worktree, head_tree, has_repo, report, m_args, totals,
                   ai_calls, ai_gave_up, summary_calls, after_default>>

\* the test of line 829 left out: every record whose file exists is analyzed again
is_reanalyzed_always(file_path, modified, work) ==
    work[file_path] # None

\* main.rs 829-831: whether the record of file_path is analyzed again
is_reanalyzed(file_path, modified, work) ==
    file_path \in modified /\ work[file_path] # None

\* the statistics replaced only when the collaborator returned an analysis
reanalyzed_on_success(analysis, stats, answer) ==
    IF answer = None THEN FileAnalysis(analysis.file_path, stats, analysis.ai_analysis)
    ELSE IF answer[1] = None THEN analysis
    ELSE FileAnalysis(analysis.file_path, stats, answer[1])

\* main.rs 832-848: the record of a file that is analyzed again; answer is None when
\* the collaborator is not asked (line 839), Some(ai_analysis) when it was
reanalyzed(analysis, stats, answer) ==
    IF answer = None THEN FileAnalysis(analysis.file_path, stats, analysis.ai_analysis)
    ELSE FileAnalysis(analysis.file_path, stats, answer[1])

\* main.rs 828-852: one record of the report
MuFile ==
    /\ MFrame
    /\ mpc = "loop"
    /\ pending # <<>>
    /\ LET i == Head(pending)
           analysis == project_analysis.file_analyses[i]
       IN IF is_reanalyzed(analysis.file_path, modified_files, worktree)
          THEN \/ /\ mpc' = "failed"
                  /\ UNCHANGED <<project_analysis, ai_calls, ai_gave_up, pending>>
               \/ /\ read_to_string(worktree[analysis.file_path][1]).kind = "Ok"
                  /\ LET stats == analyze_code(worktree[analysis.file_path][1])
                     IN IF ai_enabled(m_args)
                        THEN \E ai \in do_ai_analysis_with_retry :
                                /\ project_analysis' =
                                      [project_analysis EXCEPT !.file_analyses[i] =
                                          reanalyzed(analysis, stats, Some(ai))]
                                /\ ai_calls' = ai_calls \cup {analysis.file_path}
                                /\ ai_gave_up' =
                                      IF ai = None THEN ai_gave_up \cup {analysis.file_path}
                                                   ELSE ai_gave_up \ {analysis.file_path}
                        ELSE /\ project_analysis' =
                                   [project_analysis EXCEPT !.file_analyses[i] =
                                       reanalyzed(analysis, stats, None)]
                             /\ UNCHANGED <<ai_calls, ai_gave_up>>
                  /\ pending' = Tail(pending)
                  /\ UNCHANGED mpc
          ELSE /\ pending' = Tail(pending)
               /\ UNCHANGED <<project_analysis, ai_calls, ai_gave_up, mpc>>
    /\ UNCHANGED <<worktree, head_tree, has_repo, report, m_args, cmd, modified_files,
                   totals, summary_calls, report0, after_default>>

\* main.rs 854-867: the summary and the report file
MuWrite ==
    /\ MFrame
    /\ mpc = "loop"
    /\ pending = <<>>
    /\ \E s \in IF ai_enabled(m_args) THEN generate_project_summary_with_retry ELSE {None} :
          LET pa == IF s # None THEN [project_analysis EXCEPT !.summary = s[1]]
                    ELSE project_analysis
          IN /\ project_analysis' = pa
             /\ \E w \in write_report(pa, report) :
                   /\ report' = w.file
                   /\ mpc' = IF w.ok THEN "done" ELSE "failed"
    /\ summary_calls' = IF ai_enabled(m_args) THEN summary_calls + 1 ELSE summary_calls
    /\ UNCHANGED <<worktree, head_tree, has_repo, m_args, cmd, modified_files, pending,
                   totals, ai_calls, ai_gave_up, report0, after_default>>

\* the tool is started again on the same project
MAgain ==
    /\ MFrame
    /\ mpc \in {"done", "failed"}
    /\ mpc' = "idle"
    /\ cmd' = "none"
    /\ project_analysis' = NoAnalysis
    /\ modified_files' = {}
    /\ pending' = <<>>
    /\ totals' = [total_files |-> 0, total_loc |-> 0]
    /\ ai_calls' = {}
    /\ ai_gave_up' = {}
    /\ summary_calls' = 0
    /\ report0' = report
    /\ after_default' = (cmd = "default" /\ mpc = "done")
    /\ UNCHANGED <<worktree, head_tree, has_repo, report, m_args>>

MNext ==
    \/ MdBegin
    \/ MdFile
    \/ MdWrite
    \/ MuOpenFails
    \/ MuBegin
    \/ MuFile
    \/ MuWrite
    \/ MAgain

(***************************************************************************)
(* needs_reanalysis (analysis.rs 28-48)                                    *)
(***************************************************************************)
\* the fallback of lines 42-45 taken although analyzed_versions is present
needs_reanalysis_legacy(current_version, stored_analysis) ==
    IF current_version = None THEN TRUE
    ELSE IF stored_analysis = None THEN TRUE
    ELSE LET current == current_version[1]
             analysis == stored_analysis[1]
         IN IF analysis.git_version = None THEN TRUE
            ELSE analysis.git_version[1] # current

\* analysis.rs 28-48; both arguments are Options
needs_reanalysis(current_version, stored_analysis) ==
    IF current_version = None THEN TRUE
    ELSE IF stored_analysis = None THEN TRUE
    ELSE LET current == current_version[1]
             analysis == stored_analysis[1]
         IN IF analysis.analyzed_versions # None
            THEN ~Contains(analysis.analyzed_versions[1], current)
            ELSE IF analysis.git_version = None THEN TRUE
                 ELSE analysis.git_version[1] # current

NrInit ==
    /\ nrCurrent \in {None} \cup {Some(c) : c \in Commits}
    /\ nrStored \in {None} \cup {Some(a) : a \in InitAnalyses}
    /\ nrResult = FALSE
    /\ nrPc = "call"

NrIdle ==
    /\ nrCurrent = None
    /\ nrStored = None
    /\ nrResult = FALSE
    /\ nrPc = "off"

NrCall ==
    /\ nrPc = "call"
    /\ nrResult' = needs_reanalysis(nrCurrent, nrStored)
    /\ nrPc' = "returned"
    /\ UNCHANGED <<nrCurrent, nrStored>>
    /\ UNCHANGED <<cvVars, urVars, mVars, rtVars, acVars, rcVars>>

(***************************************************************************)
(* analysis.rs analyze_code (91-110) and both analyze_code functions on    *)
(* texts drawn line by line                                                *)
(***************************************************************************)
\* the body of the loop of analysis.rs 98-108 for one line
analysis_analyze_line(stats, line) ==
    LET trimmed == trim(line)
        s == [stats EXCEPT !.loc = @ + 1]
    IN IF trimmed = <<>>
       THEN [s EXCEPT !.blank_lines = @ + 1]
       ELSE IF \/ starts_with(trimmed, <<"/", "/">>)
               \/ starts_with(trimmed, <<"/", "*">>)
               \/ starts_with(trimmed, <<"*">>)
       THEN [s EXCEPT !.comment_lines = @ + 1]
       ELSE [s EXCEPT !.code_lines = @ + 1]

RECURSIVE analysis_analyze_lines(_, _)
analysis_analyze_lines(stats, lines) ==
    IF lines = <<>> THEN stats
    ELSE analysis_analyze_lines(analysis_analyze_line(stats, Head(lines)), Tail(lines))

\* analysis.rs 91-110 (FileStats has the fields of CodeStats)
analysis_analyze_code(content) ==
    analysis_analyze_lines(CodeStats(0, 0, 0, 0), content)

\* most lines of a drawn text
MaxLines == 3

\* the lines a text is drawn from
CodeLines ==
    { <<>>, <<" ">>, <<"x">>, <<" ", "x">>, <<"/", "/">>, <<"/", "*">>, <<"*", "/">>,
      <<"/", "*", "*", "/">>, <<"x", "*", "/">> }

AcInit ==
    /\ acText \in SeqsUpTo(CodeLines, MaxLines)
    /\ acMain = CodeStats(0, 0, 0, 0)
    /\ acLib = CodeStats(0, 0, 0, 0)
    /\ acPc = "call"

AcIdle ==
    /\ acText = <<>>
    /\ acMain = CodeStats(0, 0, 0, 0)
    /\ acLib = CodeStats(0, 0, 0, 0)
    /\ acPc = "off"

AcCall ==
    /\ acPc = "call"
    /\ acMain' = analyze_code(acText)
    /\ acLib' = analysis_analyze_code(acText)
    /\ acPc' = "returned"
    /\ UNCHANGED acText
    /\ UNCHANGED <<cvVars, urVars, mVars, nrVars, rtVars, rcVars>>

(***************************************************************************)
(* Config with all its fields (config.rs 10-21), its YAML document and     *)
(* Config::save followed by Config::load (config.rs 35-54)                 *)
(*                                                                         *)
(* A YAML document is the mapping of its keys; an Option is written as     *)
(* null or as its value.                                                   *)
(***************************************************************************)
ConfigValue(api_url, api_key, model, generated, last_analysis, output) ==
    [api_url |-> api_url, api_key |-> api_key, model |-> model,
     generated |-> generated, last_analysis |-> last_analysis, output |-> output]

\* config.rs 22-33
ConfigDefault == ConfigValue("https://api.openai.com/v1/", "", "gpt-4o-mini", None, None, None)

Null == [kind |-> "null"]

\* serde: Some(v) is serialized as v, None as null
serialize_option(o) == IF o = None THEN Null ELSE o[1]

\* serde: null is deserialized as None, any other value v as Some(v)
deserialize_option(v) == IF v.kind = "null" THEN None ELSE Some(v)

\* serde_yaml::to_string (config.rs 51) under the derive of lines 10-21:
\* last_analysis is skipped
to_string(cfg) ==
    [kind |-> "yaml", api_url |-> cfg.api_url, api_key |-> cfg.api_key, model |-> cfg.model,
     generated |-> serialize_option(cfg.generated),
     output |-> serialize_option(cfg.output)]

MissingFile == [kind |-> "missing"]

\* the derive read as if generated carried #[serde(skip)] too
from_str_skipping(doc) ==
    IF doc.kind # "yaml" THEN Err
    ELSE Ok(Some(ConfigValue(doc.api_url, doc.api_key, doc.model,
                             None, None, deserialize_option(doc.output))))

\* serde_yaml::from_str (config.rs 39): last_analysis is skipped and takes its default
from_str(doc) ==
    IF doc.kind # "yaml" THEN Err
    ELSE Ok(Some(ConfigValue(doc.api_url, doc.api_key, doc.model,
                             deserialize_option(doc.generated), None,
                             deserialize_option(doc.output))))

\* Config::load (config.rs 35-48) with no global configuration
load(file) ==
    IF file.kind # "missing" THEN from_str(file) ELSE Ok(Some(ConfigDefault))

\* the values update_report and save_to_config hand to Config::save: a loaded or
\* default Config (last_analysis is None) whose generated is the JSON of a
\* ProjectAnalysis and whose output is a path or the JSON of a ProjectAnalysis
SavedConfigs ==
    {ConfigValue(u, k, m, st.generated, None, st.output) :
        u \in {"https://api.openai.com/v1/", "u"}, k \in {"", "k"},
        m \in {"gpt-4o-mini", "m"}, st \in InitStores}

RcInit ==
    /\ rcConfig \in SavedConfigs
    /\ rcFile \in {MissingFile, to_string(ConfigDefault)}
    /\ rcLoaded = NoResult
    /\ rcPc = "save"

RcIdle ==
    /\ rcConfig = ConfigDefault
    /\ rcFile = MissingFile
    /\ rcLoaded = NoResult
    /\ rcPc = "off"

RcFrame == UNCHANGED <<cvVars, urVars, mVars, nrVars, rtVars, acVars>>

\* Config::save (config.rs 49-54): the document is written in place
RcSave ==
    /\ RcFrame
    /\ rcPc = "save"
    /\ \/ rcFile' = to_string(rcConfig) /\ rcPc' = "saved"
       \/ rcFile' \in {rcFile, PartialFile} /\ rcPc' = "save failed"
    /\ UNCHANGED <<rcConfig, rcLoaded>>

\* Config::load (config.rs 35-48) on the same project directory
RcLoad ==
    /\ RcFrame
    /\ rcPc \in {"saved", "save failed"}
    /\ rcLoaded' = load(rcFile)
    /\ rcPc' = IF rcPc = "saved" THEN "loaded" ELSE "loaded after failure"
    /\ UNCHANGED <<rcConfig, rcFile>>

RcNext ==
    \/ RcSave
    \/ RcLoad

(***************************************************************************)
(* Specifications                                                          *)
(***************************************************************************)
FnIdle == NrIdle /\ RtIdle /\ AcIdle /\ RcIdle

\* analysis.rs update_report, run after run
Init == CvIdle /\ UrInit /\ MIdle /\ FnIdle
Spec == Init /\ [][Next]_vars

\* check_version_continuity on drawn arguments
InitContinuity == CvInit /\ UrIdle /\ MIdle /\ FnIdle
SpecContinuity == InitContinuity /\ [][CvCall]_vars

\* main.rs: the default analysis and update_report, run after run
InitMain == CvIdle /\ UrIdle /\ MInit /\ FnIdle
SpecMain == InitMain /\ [][MNext]_vars

\* needs_reanalysis on drawn arguments
InitNeeds == CvIdle /\ UrIdle /\ MIdle /\ NrInit /\ RtIdle /\ AcIdle /\ RcIdle
SpecNeeds == InitNeeds /\ [][NrCall]_vars

\* the retry wrappers against every answer sequence of the wrapped operation
InitRetry == CvIdle /\ UrIdle /\ MIdle /\ NrIdle /\ RtInit /\ AcIdle /\ RcIdle
SpecRetry == InitRetry /\ [][RtNext]_vars
SpecRetryFair == SpecRetry /\ WF_vars(RtNext)

\* the analyze_code functions on drawn texts
InitCode == CvIdle /\ UrIdle /\ MIdle /\ NrIdle /\ RtIdle /\ AcInit /\ RcIdle
SpecCode == InitCode /\ [][AcCall]_vars

\* analysis.rs update_report with HEAD on a branch or detached
InitGit == CvIdle /\ UrInitGit /\ MIdle /\ FnIdle
SpecGit == InitGit /\ [][Next]_vars

\* both update_report functions, each on its own project, run after run on a
\* repository that gets no new commit
\* the command line tool on projects with unreadable files
InitWalk == CvIdle /\ UrIdle /\ MInitWalk /\ FnIdle
SpecWalk == InitWalk /\ [][MNext]_vars

InitUpdate == CvIdle /\ FnIdle /\ ((UrInit /\ MIdle) \/ (UrIdle /\ MInit))
UpdateNext == UrRun \/ MNext
SpecUpdate == InitUpdate /\ [][UpdateNext]_vars

\* Config::save and Config::load on drawn values
InitConfig == CvIdle /\ UrIdle /\ MIdle /\ NrIdle /\ RtIdle /\ AcIdle /\ RcInit
SpecConfig == InitConfig /\ [][RcNext]_vars

(***************************************************************************)
(* Properties                                                              *)
(***************************************************************************)
\* the positions of hist whose ids are in S form one unbroken run
UnbrokenRun(S, hist) ==
    LET P == {i \in 1..Len(hist) : hist[i] \in S}
    IN \A i, j \in P : \A k \in i..j : k \in P

\* the analyzed revisions a stored file stands for: analyzed_versions plus git_version
AnalyzedSet(file) == IF load_ok(file) THEN Range(stored_versions(file)) ELSE {}

\* the analyzed_versions list of a stored file (empty when there is none)
StoredList(file) ==
    IF load_ok(file) /\ file.output # None /\ from_value_ok(file.output[1])
       /\ file.output[1].analyzed_versions # None
    THEN file.output[1].analyzed_versions[1]
    ELSE <<>>

\* C1: check_version_continuity(versions, history) is true exactly when the
\* positions of history whose ids belong to versions form one unbroken run
\* (so: true for an empty versions list, whatever the order or the duplicates
\* inside versions, and ids absent from history are ignored).
C1_ContinuityIsUnbrokenRun ==
    cvPc = "returned" =>
        (cvResult <=> UnbrokenRun(Range(cvVersions), cvHistory))

\* C1 witness: the gap {h1,h3} against [h1,h2,h3] was rejected.
C1_Witness ==
    /\ cvPc = "returned"
    /\ cvVersions = <<"h3", "h1", "h3">>
    /\ cvHistory = <<"h1", "h2", "h3">>
    /\ cvResult = FALSE

\* C2: when the prior snapshot's analyzed set is not contiguous in the history,
\* a run that completes made exactly one analysis, of the working tree, and the
\* stored snapshot's analyzed set is exactly the HEAD revision.
C2_ResetOnDiscontinuity ==
    (pc = "done" /\ ~UnbrokenRun(AnalyzedSet(store0), history)) =>
        /\ analysed = <<"worktree">>
        /\ AnalyzedSet(store) = Range(get_git_version(history))

\* C3: starting from a contiguous analyzed set, whatever update_report has saved
\* holds an analyzed set that is one unbroken run of the history.
C3_PersistedContiguous ==
    (saves > 0 /\ store = config /\ UnbrokenRun(AnalyzedSet(store0), history)) =>
        UnbrokenRun(AnalyzedSet(store), history)

\* C5: a run that fails leaves the store exactly as it found it.
C5_NoWriteBeforeEnd ==
    pc = "failed" => store = store0

\* C6: with no prior snapshot stored (config.output absent) in a repository that
\* has revisions, a run that completes made exactly one analysis, of the working
\* tree, and the analyzed set is seeded with the current revision only.
C6_NoPriorSnapshotFullReset ==
    (pc = "done" /\ store0.output = None /\ history # <<>>) =>
        /\ analysed = <<"worktree">>
        /\ AnalyzedSet(store) = Range(get_git_version(history))

\* C7: the stored analyzed_versions list never holds a revision id twice.
C7_NoDuplicateVersions == NoDup(StoredList(store))

\* C7 witness: a run recorded new revisions behind a list that already held some.
C7_Witness ==
    /\ pc = "done"
    /\ saves > 1
    /\ StoredList(store0) # <<>>
    /\ Len(StoredList(store)) = Len(StoredList(store0)) + saves
    /\ Range(StoredList(store0)) \cap Range(history) # {}

\* the records of a report file (none when it is no report)
Records(file) == IF file.kind = "report" THEN file.file_analyses ELSE <<>>

HasRecord(file, path) == \E j \in 1..Len(Records(file)) : Records(file)[j].file_path = path

\* C4: in an update run, a record whose file is not among the modified files (in
\* particular one whose content in the working directory is that of the HEAD tree)
\* keeps its payload and its line statistics, in memory and in the report file, and
\* the collaborator is not called for its path.
C4_UnchangedRecordReused ==
    (cmd = "update" /\ report0.kind = "report") =>
        \A i \in 1..Len(report0.file_analyses) :
            LET r == report0.file_analyses[i] IN
            (r.file_path \notin modified_files
                \/ head_tree[r.file_path] = worktree[r.file_path]) =>
                /\ r.file_path \notin ai_calls
                /\ (mpc \in {"loop", "done"} => project_analysis.file_analyses[i] = r)
                /\ (report.kind = "report" =>
                        /\ i <= Len(report.file_analyses)
                        /\ report.file_analyses[i] = r)

\* C4 witness: an update rewrote the report after calling the collaborator for a
\* modified file, next to an unchanged file whose record holds a payload.
C4_Witness ==
    /\ cmd = "update"
    /\ mpc = "done"
    /\ report # report0
    /\ ai_calls = {"b.rs"}
    /\ head_tree["a.rs"] = worktree["a.rs"]
    /\ \E i \in 1..Len(Records(report)) :
          /\ Records(report)[i].file_path = "a.rs"
          /\ Records(report)[i].ai_analysis = Some("P1")

\* C8: after an update that met a file without a record in the prior report (the
\* file is among the modified files), the report holds a record for it with the
\* statistics of its content, and the collaborator was asked about it when enabled.
C8_NewFileGetsRecord ==
    (cmd = "update" /\ mpc = "done") =>
        \A b \in modified_files :
            (worktree[b] # None /\ ~HasRecord(report0, b)) =>
                /\ \E j \in 1..Len(Records(report)) :
                      /\ Records(report)[j].file_path = b
                      /\ Records(report)[j].loc = analyze_code(worktree[b][1]).loc
                /\ (ai_enabled(m_args) => b \in ai_calls)

\* C9: after an update that went past the early return, the report holds no record
\* of a file that is no longer in the project.
C9_RemovedFilesDropped ==
    (cmd = "update" /\ mpc = "done" /\ modified_files # {}) =>
        \A j \in 1..Len(Records(report)) : worktree[Records(report)[j].file_path] # None

\* C10: without version control, a default analysis that follows a completed one
\* over the same files leaves the report as it was and calls no collaborator.
C10_SecondRunIdempotent ==
    (cmd = "default" /\ mpc = "done" /\ after_default /\ ~has_repo) =>
        /\ report = report0
        /\ ai_calls = {}

WalkedFiles == SelectSeq(WalkOrder, LAMBDA p : worktree[p] # None)

\* those of a sequence of walked files that can be read
Readable(files) ==
    SelectSeq(files, LAMBDA p : read_to_string(worktree[p][1]).kind = "Ok")

\* C14: the wrappers never return Err and answer Ok(None) when every attempt
\* failed; a default analysis therefore never stops in the walk: every file gets
\* its record with its line statistics, without payload when the wrapper gave up,
\* only the write of the report can fail, and a summary that could not be
\* generated holds the locally counted totals.
C14_CollaboratorFailureNeverAborts ==
    /\ \A r \in with_retry_results : r.kind = "Ok"
    /\ with_retry([i \in 1..MAX_RETRIES |-> "err"]) = Ok(Some(None))
    /\ (cmd = "default" /\ mpc \in {"walk", "done", "failed"}) =>
          LET recs == project_analysis.file_analyses IN
          /\ Len(recs) + Len(Readable(pending)) = Len(Readable(WalkedFiles))
          /\ \A i \in 1..Len(recs) :
                /\ recs[i].file_path = Readable(WalkedFiles)[i]
                /\ recs[i] = FileAnalysis(Readable(WalkedFiles)[i],
                                          analyze_code(worktree[Readable(WalkedFiles)[i]][1]),
                                          recs[i].ai_analysis)
                /\ recs[i].ai_analysis \in {None} \cup {Some(p) : p \in Payloads}
                /\ (recs[i].file_path \in ai_gave_up => recs[i].ai_analysis = None)
          /\ (mpc = "failed" => pending = <<>>)
          /\ (mpc = "done" =>
                /\ report = ReportFile(project_analysis)
                /\ (project_analysis.summary.kind = "local" =>
                      project_analysis.summary =
                         LocalSummary(totals.total_files, totals.total_loc)))

\* C14 witness: a default analysis with the collaborator enabled completed although
\* the wrapper gave up on a.rs and on the summary.
C14_Witness ==
    /\ cmd = "default"
    /\ mpc = "done"
    /\ ai_enabled(m_args)
    /\ ai_calls = {"a.rs", "b.rs"}
    /\ ai_gave_up = {"a.rs"}
    /\ summary_calls = 1
    /\ Len(Records(report)) = 2
    /\ Records(report)[1].ai_analysis = None
    /\ Records(report)[2].ai_analysis = Some("P2")
    /\ report.summary.kind = "local"

\* the first of the MAX_RETRIES calls the operation answers with success, or 0
FirstOk ==
    LET oks == {i \in 1..MAX_RETRIES : i <= Len(rtOutcomes) /\ rtOutcomes[i] = "ok"}
    IN IF oks = {} THEN 0 ELSE CHOOSE i \in oks : \A j \in oks : i <= j

\* what C15 asks of every state of a wrapper
RetryBounded ==
    /\ rtCalls <= MAX_RETRIES
    /\ rtPc = "returned" =>
          IF FirstOk # 0
          THEN /\ rtCalls = FirstOk
               /\ rtResult = IF rtFn = "retry" THEN Ok(Some(FirstOk))
                                               ELSE Ok(Some(Some(FirstOk)))
          ELSE /\ rtCalls = MAX_RETRIES
               /\ rtResult = IF rtFn = "retry" THEN Err ELSE Ok(Some(None))

\* C15: every retry wrapper calls the operation at most MAX_RETRIES times, returns
\* the value of the first successful call without calling again, and returns in
\* the end, whatever the operation answers.
C15_RetryBoundedAndTerminates ==
    []RetryBounded /\ <>(rtPc = "returned")

\* C15 witness: utils::retry returned the value of the third call after an error
\* and a join error, without using the success that would have followed.
C15_Witness ==
    /\ rtPc = "returned"
    /\ rtFn = "retry"
    /\ rtOutcomes[1] = "err"
    /\ rtOutcomes[2] = "join error"
    /\ rtOutcomes[3] = "ok"
    /\ rtOutcomes[4] = "ok"
    /\ rtCalls = 3
    /\ rtResult = Ok(Some(3))

\* C19: each analyze_code returns loc = blank_lines + comment_lines + code_lines,
\* with loc the number of lines of the text.
C19_CountsAddUp ==
    acPc = "returned" =>
        /\ acMain.loc = Len(acText)
        /\ acMain.loc = acMain.blank_lines + acMain.comment_lines + acMain.code_lines
        /\ acLib.loc = Len(acText)
        /\ acLib.loc = acLib.blank_lines + acLib.comment_lines + acLib.code_lines

\* C19 witness: a text with a blank line inside a block comment that is closed on
\* the third line was counted by both functions.
C19_Witness ==
    /\ acPc = "returned"
    /\ acText = << <<"/", "*">>, <<" ">>, <<"x", "*", "/">> >>
    /\ acMain = CodeStats(3, 1, 2, 0)
    /\ acLib = CodeStats(3, 1, 1, 1)

\* how f counts line k of text: the counter that grows when the line is added
LineClass(f(_), text, k) ==
    LET before == f(SubSeq(text, 1, k - 1))
        after == f(SubSeq(text, 1, k))
    IN IF after.blank_lines > before.blank_lines THEN "blank"
       ELSE IF after.comment_lines > before.comment_lines THEN "comment"
       ELSE IF after.code_lines > before.code_lines THEN "code"
       ELSE "none"

\* how a line is classified outside of every block comment
NormalClass(line) ==
    IF trim(line) = <<>> THEN "blank"
    ELSE IF starts_with(trim(line), <<"/", "/">>) \/ starts_with(trim(line), <<"/", "*">>)
    THEN "comment"
    ELSE "code"

Opens(line) ==
    starts_with(trim(line), <<"/", "*">>) /\ ~contains(trim(line), <<"*", "/">>)

Closes(line) == contains(trim(line), <<"*", "/">>)

\* f counts every non-blank line from an opening line up to the first following
\* closing line as a comment line, and the line behind the closing one normally
BlockCommentCarried(f(_), text) ==
    \A i \in 1..Len(text) :
        Opens(text[i]) =>
            LET closing == {j \in (i + 1)..Len(text) : Closes(text[j])}
                last == IF closing = {} THEN Len(text)
                        ELSE CHOOSE j \in closing : \A m \in closing : j <= m
            IN /\ \A k \in i..last :
                     trim(text[k]) # <<>> => LineClass(f, text, k) = "comment"
               /\ (last < Len(text) /\ closing # {}) =>
                     LineClass(f, text, last + 1) = NormalClass(text[last + 1])

\* C20: in both analyze_code functions the block-comment state carries across
\* lines: the lines of an open block comment count as comment lines up to the
\* closing marker, and the line after it is classified normally again.
C20_BlockCommentCarried ==
    acPc = "returned" =>
        /\ BlockCommentCarried(analyze_code, acText)
        /\ BlockCommentCarried(analysis_analyze_code, acText)

\* C12: an update that finds a report it can read does not fail because no
\* repository can be opened.
C12_HistoryErrorsNonFatal ==
    (cmd = "update" /\ report0.kind = "report" /\ ~has_repo) => mpc # "failed"

\* a stored file whose output is no ProjectAnalysis
Mismatched(file) ==
    load_ok(file) /\ file.output # None /\ ~from_value_ok(file.output[1])

\* C13: a run does not fail on a stored file that cannot be parsed, and a run that
\* completes on a stored output that is no snapshot made one analysis, of the
\* working tree, and stored a snapshot that records the current revision.
C13_CorruptSnapshotFullReset ==
    /\ ~(pc = "failed" /\ ~load_ok(store0))
    /\ (pc = "done" /\ Mismatched(store0) /\ history # <<>>) =>
          /\ analysed = <<"worktree">>
          /\ load_ok(store)
          /\ history[1] \in AnalyzedSet(store)

\* C16: in an update with skip_ai set or an empty API key no collaborator is
\* called, every record keeps its payload and the report its summary, and a
\* completed run wrote the new line statistics of the modified files.
C16_UpdateWithoutCollaborator ==
    (cmd = "update" /\ report0.kind = "report"
       /\ (m_args.skip_ai \/ m_args.api_key_empty)) =>
        /\ ai_calls = {}
        /\ summary_calls = 0
        /\ mpc \in {"loop", "done"} =>
              /\ project_analysis.summary = report0.summary
              /\ Len(project_analysis.file_analyses) = Len(report0.file_analyses)
              /\ \A i \in 1..Len(report0.file_analyses) :
                    project_analysis.file_analyses[i].ai_analysis
                        = report0.file_analyses[i].ai_analysis
        /\ (mpc = "done" /\ modified_files # {}) =>
              /\ report = ReportFile(project_analysis)
              /\ \A i \in 1..Len(Records(report)) :
                    LET r == Records(report)[i] IN
                    (r.file_path \in modified_files /\ worktree[r.file_path] # None) =>
                        r = FileAnalysis(r.file_path,
                                         analyze_code(worktree[r.file_path][1]),
                                         report0.file_analyses[i].ai_analysis)

\* C16 witness: with skip_ai set an update rewrote the statistics of the modified
\* a.rs and kept its payload.
C16_Witness ==
    /\ cmd = "update"
    /\ mpc = "done"
    /\ m_args.skip_ai
    /\ modified_files = {"a.rs"}
    /\ report # report0
    /\ Records(report0)[1].file_path = "a.rs"
    /\ Records(report0)[1].ai_analysis = Some("P1")
    /\ Records(report)[1].ai_analysis = Some("P1")
    /\ Records(report)[1].loc # Records(report0)[1].loc

\* C17: a run asked to use the collaborator (skip_ai not set) without an API key
\* fails before it walked, analyzed or wrote anything.
C17_MissingCredentialHalts ==
    (cmd \in {"default", "update"} /\ ~m_args.skip_ai /\ m_args.api_key_empty) =>
        /\ mpc = "failed"
        /\ report = report0
        /\ totals.total_files = 0
        /\ project_analysis.file_analyses \in {<<>>, Records(report0)}

\* C18: in an update, the record of a file for which the wrapper gave up holds the
\* line statistics of the new content and no payload.
C18_FailedReanalysisKeepsStats ==
    (cmd = "update" /\ mpc \in {"loop", "done", "failed"}) =>
        \A i \in 1..Len(project_analysis.file_analyses) :
            LET r == project_analysis.file_analyses[i] IN
            r.file_path \in ai_gave_up =>
                /\ r = FileAnalysis(r.file_path, analyze_code(worktree[r.file_path][1]), None)
                /\ (mpc = "done" => Records(report)[i] = r)

\* C18 witness: an update completed after the wrapper gave up on the modified a.rs,
\* whose record held a payload and other statistics before.
C18_Witness ==
    /\ cmd = "update"
    /\ mpc = "done"
    /\ ai_gave_up = {"a.rs"}
    /\ Records(report0)[1].file_path = "a.rs"
    /\ Records(report0)[1].ai_analysis = Some("P1")
    /\ Records(report0)[1].loc # Records(report)[1].loc
    /\ Records(report)[1].ai_analysis = None

\* the code of a text: its lines that main.rs analyze_code counts as code, without
\* their whitespace
CodeOf(text) ==
    LET code == SelectSeq([k \in 1..Len(text) |-> k],
                          LAMBDA k : LineClass(analyze_code, text, k) = "code")
    IN [i \in 1..Len(code) |-> SelectSeq(text[code[i]], LAMBDA c : ~IsSpace(c))]

\* C21: a file whose text differs from the one of the HEAD tree only in whitespace
\* or in comment-only lines is not among the files an update analyzes again.
C21_WhitespaceEditNotReanalyzed ==
    (cmd = "update" /\ mpc \in {"loop", "done"}) =>
        \A p \in modified_files :
            (head_tree[p] # None /\ worktree[p] # None) =>
                CodeOf(head_tree[p][1]) # CodeOf(worktree[p][1])

\* C22: a save is atomic: whether it succeeded or failed, the stored file holds a
\* whole configuration, the one that was saved or the one stored before.
C22_SaveAtomic ==
    store # PartialFile

C24_AnalysisResultsKept ==
    (pc \in {"switch", "done"} /\ version # None /\ result = "ok") =>
        /\ load_ok(store)
        /\ store.generated = Some(create_project_analysis(version[1]))

\* the attempts that have failed so far
FailedAttempts ==
    IF rtPc = "returned" /\ FirstOk # 0 THEN rtCalls - 1 ELSE rtCalls

\* C26: every retry wrapper has waited 1000 * k milliseconds after its k-th failed
\* attempt, for k = 1..4, and not at all after the fifth.
C26_LinearBackoff ==
    rtPc \in {"loop", "returned"} =>
        /\ Len(rtWaits) = IF FailedAttempts < 5 THEN FailedAttempts ELSE 4
        /\ \A k \in 1..Len(rtWaits) : rtWaits[k] = 1000 * k

\* C26 witness: the analysis wrapper returned after five failed attempts and four
\* waits.
C26_Witness ==
    /\ rtPc = "returned"
    /\ rtFn = "ai"
    /\ rtCalls = 5
    /\ rtResult = Ok(Some(None))
    /\ rtWaits = <<1000, 2000, 3000, 4000>>

\* C25: whenever a run returns, HEAD points to what it pointed to before the run
\* and no temporary analysis branch is left that the run did not find.
C25_HeadRestored ==
    pc \in {"done", "failed"} =>
        /\ repo_head = repo_head0
        /\ temp_branches \subseteq temp_branches0

\* the revision ids the stored list holds that it did not hold when the run began
NewlyRecorded == Range(StoredList(store)) \ Range(StoredList(store0))

\* C27: a revision id enters the stored analyzed_versions only after its analysis
\* returned successfully (on the reset path: the HEAD revision after the analysis
\* of the working tree); when the analysis of a revision fails, the run ends with
\* the error, the revision is not recorded, and no later revision is analyzed or
\* recorded.
C27_RecordedOnlyAfterSuccess ==
    /\ NewlyRecorded \subseteq
          (Range(analysed) \cup (IF Contains(analysed, "worktree")
                                 THEN Range(get_git_version(history)) ELSE {}))
    /\ result = "err" =>
          /\ pc \in {"cleanup", "record", "failed"}
          /\ version[1] \notin Range(StoredList(store))
          /\ Range(versions_to_analyze) \cap (Range(analysed) \cup NewlyRecorded) = {}

\* C27 witness: a run recorded the first revision, failed in the analysis of the
\* second and returned the error with a third revision left.
C27_Witness ==
    /\ pc = "failed"
    /\ result = "err"
    /\ saves = 1
    /\ Len(analysed) = 1
    /\ StoredList(store) = <<analysed[1]>>
    /\ versions_to_analyze # <<>>
    /\ repo_head = repo_head0

\* the snapshot a stored file holds, as an Option
PersistedSnapshot(file) ==
    IF load_ok(file) /\ file.output # None /\ from_value_ok(file.output[1])
    THEN Some(file.output[1]) ELSE None

\* C28: after a run that found a stored snapshot and a HEAD revision has returned
\* Ok, needs_reanalysis of the HEAD revision and the stored snapshot is false.
C28_NoReanalysisAfterUpdate ==
    (pc = "done" /\ history # <<>> /\ PersistedSnapshot(store0) # None) =>
        ~needs_reanalysis(get_git_version(history), PersistedSnapshot(store))

\* C29: when nothing needs updating, an update changes nothing. analysis.rs: with
\* every revision of the history in the analyzed set (or an empty history) the run
\* ends without an analysis, a checkout or a write, and with Ok unless the history
\* of the repository could not be read. main.rs: with every file as in the HEAD
\* tree the run returns Ok without calling a collaborator and leaves the report
\* file alone.
C29_NothingToUpdate ==
    /\ (pc \notin {"idle", "off"} /\ load_ok(store0)
          /\ Range(history) \subseteq AnalyzedSet(store0)) =>
          /\ pc \in {"done", "failed"}
          /\ (history = <<>> => pc = "done")
          /\ analysed = <<>>
          /\ version = None
          /\ saves = 0
          /\ store = store0
          /\ repo_head = repo_head0
          /\ temp_branches = temp_branches0
    /\ (cmd = "update" /\ report0.kind = "report" /\ has_repo /\ worktree = head_tree) =>
          /\ mpc = "done"
          /\ modified_files = {}
          /\ ai_calls = {}
          /\ summary_calls = 0
          /\ report = report0

\* C29 witness: a run of analysis.rs update_report returned Ok on a history of
\* three revisions that were all analyzed, one of them named by git_version only.
C29_Witness ==
    /\ pc = "done"
    /\ Len(history) = 3
    /\ Range(history) = AnalyzedSet(store0)
    /\ store0.output[1].git_version # None
    /\ ~Contains(StoredList(store0), store0.output[1].git_version[1])
    /\ store0.generated # None
    /\ store = store0


\* the sum of the loc of a sequence of file records
RECURSIVE SumLoc(_)
SumLoc(recs) == IF recs = <<>> THEN 0 ELSE Head(recs).loc + SumLoc(Tail(recs))

\* C30: in every report written with the locally built summary, total_files is the
\* number of entries of file_analyses and total_loc is the sum of their loc, also
\* when a discovered file could not be read.
C30_SummaryTotalsMatchRecords ==
    (report.kind = "report" /\ report.summary.kind = "local") =>
       /\ report.summary.total_files = Len(report.file_analyses)
       /\ report.summary.total_loc = SumLoc(report.file_analyses)

====
